---- MODULE Spec2Model ----
(***************************************************************************)
(* investment-adjuster: the holdings model (portfolio.rs) and the          *)
(* allocation engine (target.rs).                                          *)
(*                                                                         *)
(* Numbers.  Dollar and Percent are f32 in the source.  The model uses     *)
(* integers: a Dollar is a whole number of dollars and every input amount  *)
(* is a multiple of 100, a Percent is a whole number, so that              *)
(* to_distribute * (target / 100.0) is the integer                         *)
(* (to_distribute * target) \div 100 with no remainder.  Arithmetic is     *)
(* therefore exact; f32 rounding, NaN and infinities are not modelled.     *)
(*                                                                         *)
(* Maps.  A HashMap is a function on its key set; wherever the source      *)
(* iterates a HashMap into a Vec the order is chosen nondeterministically. *)
(***************************************************************************)
EXTENDS Integers, Sequences, FiniteSets, TLC

(* ---------------------------------------------------------------- bounds *)

\* most rows in a provider file
MaxRows == 3
\* most policies in a target configuration file
MaxPolicies == 2

(* ------------------------------------------------------- input universes *)

AccountNumbers == {"A1", "A2"}

\* A provider symbol is a stem followed by `marks` copies of the core
\* marker "**".
RawSymbol(stem, marks) == [stem |-> stem, marks |-> marks]

Row(acct, stem, marks, value) ==
    [account_number |-> acct, symbol |-> RawSymbol(stem, marks), current_value |-> value]

\* The rows a provider file is made of.
RowUniverse ==
    { Row("A1", "CASH", 1, 1000),
      Row("A1", "CASH", 1, 200),
      Row("A1", "CASH", 0, 1000),
      Row("A1", "VTI", 0, 4000),
      Row("A1", "BND", 0, 5000),
      Row("A2", "CASH", 1, 1000) }

\* The allocation maps a configuration file declares (symbol -> percent).
AllocationUniverse ==
    { [s \in {"VTI", "BND"} |-> IF s = "VTI" THEN 60 ELSE 40],
      [s \in {"VTI"} |-> 100],
      [s \in {"VTI", "BND"} |-> IF s = "VTI" THEN 100 ELSE 0],
      [s \in {"VTI", "BND"} |-> IF s = "VTI" THEN 150 ELSE -50],
      [s \in {"VTI", "BND"} |-> IF s = "VTI" THEN 60 ELSE 60],
      [s \in {"VTI"} |-> 60],
      [s \in {"CASH", "VTI"} |-> IF s = "VTI" THEN 60 ELSE 40] }

Minimums == {500, 1000, 6000}

BuilderUniverse ==
    [account_number : {"A1"},
     core_position : [symbol : {"CASH"}, minimum : Minimums],
     allocations : AllocationUniverse]

SeqsUpTo(S, n) == UNION { [1..k -> S] : k \in 0..n }

\* The provider files.
ProviderFiles == SeqsUpTo(RowUniverse, MaxRows)

\* The configuration files.
ConfigFiles == SeqsUpTo(BuilderUniverse, MaxPolicies)

\* The configuration files that declare at most one policy.
SinglePolicyFiles == SeqsUpTo(BuilderUniverse, 1)

\* The entries an ignore list is made of.
IgnoreUniverse == {"bnd", "CASH", "XYZ"}

(* ----------------------------------------------------------------- state *)

VARIABLES
    rows,       \* the rows deserialized from the provider file, <<>> before it is read
    portfolio,  \* <<>> before Portfolio::load_from_file, then <<accounts>>
    config,     \* the builders deserialized from the configuration file
    policies,   \* <<>> before AllocationTargets::load_from_file, then <<Result>>
    result      \* <<>> before adjust_allocations, then <<its arguments and Result>>

vars == <<rows, portfolio, config, policies, result>>

(* ------------------------------------------------------------ portfolio.rs *)

\* FidelityCsvRow::symbol: trim_end_matches("**") strips every trailing marker.
symbol(row) == row.symbol.stem

\* FidelityCsvRow::is_core_position: ends_with("**").
is_core_position(row) == row.symbol.marks >= 1

\* impl From<FidelityCsvRow> for Position
FromRow(row) ==
    [symbol |-> symbol(row),
     current_value |-> row.current_value,
     is_core |-> is_core_position(row),
     ignored |-> FALSE]

\* One turn of the loop of Portfolio::load_from_file: the entry of the row's
\* account gets the row's position pushed, or is created with it.
InsertRow(accounts, row) ==
    LET a == row.account_number
    IN  IF a \in DOMAIN accounts
        THEN [accounts EXCEPT ![a].positions = Append(@, FromRow(row))]
        ELSE [b \in DOMAIN accounts \cup {a} |->
                IF b = a
                THEN [account_number |-> a, positions |-> <<FromRow(row)>>]
                ELSE accounts[b]]

RECURSIVE LoadRows(_, _, _)
LoadRows(accounts, rs, i) ==
    IF i > Len(rs) THEN accounts
    ELSE LoadRows(InsertRow(accounts, rs[i]), rs, i + 1)

\* Portfolio::load_from_file, from the deserialized rows on: the accounts by
\* account number (the source collects the map's values into a Vec).
Portfolio_load_from_file(rs) == LoadRows(<<>>, rs, 1)

\* u8::to_ascii_uppercase over the symbols of the model.
to_ascii_uppercase(s) == IF s = "bnd" THEN "BND" ELSE s

eq_ignore_ascii_case(a, b) == to_ascii_uppercase(a) = to_ascii_uppercase(b)

\* set_ignored with the symbols compared exactly (==)
set_ignored_exact(balance, ignored) ==
    [balance EXCEPT !.positions =
        [k \in 1..Len(@) |->
            IF \E i \in ignored : i = @[k].symbol
            THEN [@[k] EXCEPT !.ignored = TRUE]
            ELSE @[k]]]

\* AccountBalance::set_ignored
set_ignored(balance, ignored) ==
    [balance EXCEPT !.positions =
        [k \in 1..Len(@) |->
            IF \E i \in ignored : eq_ignore_ascii_case(i, @[k].symbol)
            THEN [@[k] EXCEPT !.ignored = TRUE]
            ELSE @[k]]]

(* --------------------------------------------------------------- target.rs *)

RECURSIVE SumOver(_, _)
\* iter().sum() of f over the keys S
SumOver(f, S) ==
    IF S = {} THEN 0
    ELSE LET s == CHOOSE x \in S : TRUE IN f[s] + SumOver(f, S \ {s})

\* validate with the comparison loosened to "at least 100"
validate_at_least(builder) ==
    LET total_percent == SumOver(builder.allocations, DOMAIN builder.allocations)
    IN  total_percent >= 100

\* AllocationTargetsBuilder::validate
validate(builder) ==
    LET total_percent == SumOver(builder.allocations, DOMAIN builder.allocations)
    IN  total_percent = 100

\* AllocationTargetsBuilder::build / try_into
build(builder) ==
    IF validate(builder)
    THEN [ok |-> TRUE,
          val |-> <<[account_number |-> builder.account_number,
                     core_position |-> builder.core_position,
                     targets |-> builder.allocations]>>]
    ELSE [ok |-> FALSE, val |-> <<>>]

RECURSIVE CollectBuilt(_, _, _)
\* collect::<Result<Vec<_>>>: the first failure ends the collection
CollectBuilt(builders, i, acc) ==
    IF i > Len(builders) THEN [ok |-> TRUE, val |-> acc]
    ELSE LET b == build(builders[i])
         IN  IF b.ok THEN CollectBuilt(builders, i + 1, acc \o b.val)
             ELSE [ok |-> FALSE, val |-> <<>>]

\* AllocationTargets::load_from_file, from the deserialized builders on
AllocationTargets_load_from_file(builders) == CollectBuilt(builders, 1, <<>>)

(* ------------------------------------------- AllocationTargets::adjust_allocations *)

Nothing == [kind |-> "Nothing", amount |-> 0]
Ignore == [kind |-> "Ignore", amount |-> 0]
Sell(amount) == [kind |-> "Sell", amount |-> amount]
Buy(amount) == [kind |-> "Buy", amount |-> amount]

abs(x) == IF x < 0 THEN -x ELSE x

\* The errors of adjust_allocations, by the bail!/anyhow! that raises them.
ErrCoreNotFound == "Failed to find an entry for core position"
ErrNotMarkedCore == "Found position but it was not marked as the core position"
ErrCoreInTargets == "Core position cannot be in target list"
ErrIgnoredTarget == "Can't ignore symbol: it is specified in the target allocation"
ErrNotEnoughValue == "Not enough value to maintain core position minimum"

\* find without the comparison of symbols: the first position of the account
FindCore_any_symbol(self, balance) ==
    IF balance.account_number = self.account_number /\ Len(balance.positions) > 0
    THEN 1 ELSE 0

\* positions.iter().find(..): the index of the first position with the core
\* symbol, provided the balance is of the policy's account; 0 for None.
FindCore(self, balance) ==
    LET hits == { k \in 1..Len(balance.positions) :
                    /\ balance.positions[k].symbol = self.core_position.symbol
                    /\ balance.account_number = self.account_number }
    IN  IF hits = {} THEN 0 ELSE CHOOSE k \in hits : \A j \in hits : k <= j

\* the working map started empty: the targets are never entered
InsertTargets_skipped(self) == <<>>

\* The first loop: every target symbol with its percent, no value, not ignored.
InsertTargets(self) ==
    [s \in DOMAIN self.targets |->
        [current_value |-> 0, target |-> self.targets[s], ignored |-> FALSE]]

\* One turn of the second loop: an entry that exists gets the position's
\* value and nothing else; a new entry takes the value and the ignored flag.
InsertPosition(adjustments, pos) ==
    IF pos.symbol \in DOMAIN adjustments
    THEN [adjustments EXCEPT ![pos.symbol].current_value = pos.current_value]
    ELSE [s \in DOMAIN adjustments \cup {pos.symbol} |->
            IF s = pos.symbol
            THEN [current_value |-> pos.current_value, target |-> 0, ignored |-> pos.ignored]
            ELSE adjustments[s]]

RECURSIVE InsertPositions(_, _, _)
InsertPositions(adjustments, positions, k) ==
    IF k > Len(positions) THEN adjustments
    ELSE InsertPositions(InsertPosition(adjustments, positions[k]), positions, k + 1)

\* The working map `adjustments` after both loops.
Adjustments(self, balance) == InsertPositions(InsertTargets(self), balance.positions, 1)

\* The check of lines 85-89.
IgnoredTargetCheck(adjustments) ==
    \E s \in DOMAIN adjustments : adjustments[s].ignored /\ adjustments[s].target # 0

\* total_val without the filter: ignored entries are summed too
TotalVal_unfiltered(adjustments) ==
    SumOver([s \in DOMAIN adjustments |-> adjustments[s].current_value], DOMAIN adjustments)

\* total_val: the values of the entries that are not ignored.
TotalVal(adjustments) ==
    LET kept == { s \in DOMAIN adjustments : ~adjustments[s].ignored }
    IN  SumOver([s \in kept |-> adjustments[s].current_value], kept)

ToDistribute(self, adjustments) == TotalVal(adjustments) - self.core_position.minimum

\* the core action without the Buy arm: a core below the minimum gets Nothing
CoreAction_no_buy(self, adj) ==
    IF adj.current_value > self.core_position.minimum
    THEN Sell(adj.current_value - self.core_position.minimum)
    ELSE Nothing

\* The action of the core entry.
CoreAction(self, adj) ==
    IF adj.current_value > self.core_position.minimum
    THEN Sell(adj.current_value - self.core_position.minimum)
    ELSE IF adj.current_value < self.core_position.minimum
         THEN Buy(self.core_position.minimum - adj.current_value)
         ELSE Nothing

\* The action of any other entry.
TargetAction(adj, to_distribute) ==
    LET desired_val == (to_distribute * adj.target) \div 100
        val == desired_val - adj.current_value
    IN  IF val > 0 THEN Buy(abs(val))
        ELSE IF val < 0 THEN Sell(abs(val))
        ELSE Nothing

\* The closure of the final map().
EntryAction(self, s, adj, to_distribute) ==
    IF adj.ignored THEN Ignore
    ELSE IF s = self.core_position.symbol THEN CoreAction(self, adj)
    ELSE TargetAction(adj, to_distribute)

Err(e) == [ok |-> FALSE, err |-> e, actions |-> <<>>]

\* adjust_allocations up to the order of the returned Vec: Err, or Ok with
\* the action of every key of the working map.
adjust_allocations(self, balance) ==
    LET core == FindCore(self, balance)
    IN  IF core = 0 THEN Err(ErrCoreNotFound)
        ELSE IF ~balance.positions[core].is_core THEN Err(ErrNotMarkedCore)
        ELSE IF balance.positions[core].symbol \in DOMAIN self.targets THEN Err(ErrCoreInTargets)
        ELSE LET adjustments == Adjustments(self, balance)
                 to_distribute == ToDistribute(self, adjustments)
             IN  IF IgnoredTargetCheck(adjustments) THEN Err(ErrIgnoredTarget)
                 ELSE IF to_distribute < 0 THEN Err(ErrNotEnoughValue)
                 ELSE [ok |-> TRUE, err |-> "",
                       actions |-> [s \in DOMAIN adjustments |->
                                      EntryAction(self, s, adjustments[s], to_distribute)]]

\* The orders in which a HashMap with keys S can be iterated.
IterationOrders(S) ==
    { o \in [1..Cardinality(S) -> S] : \A i, j \in 1..Cardinality(S) : o[i] = o[j] => i = j }

\* into_iter().map(..).collect(): the (symbol, Action) pairs in iteration order.
CollectActions(actions, order) ==
    [i \in 1..Len(order) |-> <<order[i], actions[order[i]]>>]

(* --------------------------------------------------------------- behaviour *)

Init ==
    /\ rows = <<>>
    /\ portfolio = <<>>
    /\ config = <<>>
    /\ policies = <<>>
    /\ result = <<>>

\* Portfolio::load_from_file reads the provider file.
LoadPortfolio ==
    /\ portfolio = <<>>
    /\ \E rs \in ProviderFiles :
        /\ rows' = rs
        /\ portfolio' = <<Portfolio_load_from_file(rs)>>
    /\ UNCHANGED <<config, policies, result>>

\* AllocationTargets::load_from_file reads the configuration file.
LoadTargets(files) ==
    /\ policies = <<>>
    /\ \E bs \in files :
        /\ config' = bs
        /\ policies' = <<AllocationTargets_load_from_file(bs)>>
    /\ UNCHANGED <<rows, portfolio, result>>

\* AccountBalance::set_ignored on one account, after the load and before the
\* policies are processed.
SetIgnored ==
    /\ portfolio # <<>>
    /\ result = <<>>
    /\ \E a \in DOMAIN portfolio[1], ignored \in SUBSET IgnoreUniverse :
        portfolio' = <<[portfolio[1] EXCEPT ![a] = set_ignored(@, ignored)]>>
    /\ UNCHANGED <<rows, config, policies, result>>

\* adjust_allocations of one loaded policy on one loaded account.
AdjustAllocations ==
    /\ portfolio # <<>>
    /\ policies # <<>>
    /\ result = <<>>
    /\ \E p \in 1..Len(policies[1].val), a \in DOMAIN portfolio[1] :
        LET self == policies[1].val[p]
            balance == portfolio[1][a]
            r == adjust_allocations(self, balance)
        IN  \E order \in IterationOrders(DOMAIN r.actions) :
              result' = <<[policy |-> self, balance |-> balance,
                           ok |-> r.ok, err |-> r.err,
                           actions |-> CollectActions(r.actions, order)]>>
    /\ UNCHANGED <<rows, portfolio, config, policies>>

\* The run of the program on one provider file and one policy:
\* adjust_allocations takes one policy at a time.
Next == LoadPortfolio \/ LoadTargets(SinglePolicyFiles) \/ SetIgnored \/ AdjustAllocations

Spec == Init /\ [][Next]_vars

\* The loading of configuration files of several policies.
NextTargets == LoadTargets(ConfigFiles)

SpecTargets == Init /\ [][NextTargets]_vars

(* ------------------------------------------------------------- properties *)

\* adjust_allocations has returned
Called == result # <<>>

\* adjust_allocations has returned Ok
Succeeded == Called /\ result[1].ok

\* the actions returned for symbol s
ActionsOf(s) ==
    { result[1].actions[i][2] : i \in { j \in 1..Len(result[1].actions) : result[1].actions[j][1] = s } }

HoldingSymbols(balance) == { balance.positions[k].symbol : k \in 1..Len(balance.positions) }

TargetSymbols(policy) == DOMAIN policy.targets

\* the holdings flag symbol s ignored
IsIgnored(balance, s) ==
    \E k \in 1..Len(balance.positions) :
        balance.positions[k].symbol = s /\ balance.positions[k].ignored

\* the holdings list no symbol twice
UniqueSymbols(balance) ==
    \A j, k \in 1..Len(balance.positions) :
        balance.positions[j].symbol = balance.positions[k].symbol => j = k

RECURSIVE SeqSum(_, _)
\* the sum of f(k) over the indices k of S
SeqSum(f, S) ==
    IF S = {} THEN 0
    ELSE LET k == CHOOSE x \in S : TRUE IN f[k] + SeqSum(f, S \ {k})

\* the value the holdings give for symbol s: the sum of its positions, 0 for none
HoldingValue(balance, s) ==
    LET idx == { k \in 1..Len(balance.positions) : balance.positions[k].symbol = s }
    IN  SeqSum([k \in idx |-> balance.positions[k].current_value], idx)

\* the sum of the values of the holdings that are not flagged ignored
NonIgnoredHoldings(balance) ==
    LET idx == { k \in 1..Len(balance.positions) : ~balance.positions[k].ignored }
    IN  SeqSum([k \in idx |-> balance.positions[k].current_value], idx)

TargetPercent(policy, s) == IF s \in DOMAIN policy.targets THEN policy.targets[s] ELSE 0

\* the action a signed delta stands for
ActionOfDelta(delta) ==
    IF delta > 0 THEN [kind |-> "Buy", amount |-> delta]
    ELSE IF delta < 0 THEN [kind |-> "Sell", amount |-> 0 - delta]
    ELSE [kind |-> "Nothing", amount |-> 0]

\* C1: for every non-core symbol of the targets or the holdings that the
\* holdings do not flag ignored, a successful adjust_allocations returns the
\* action of delta = to_distribute * target_percent / 100 - current_value,
\* where to_distribute is the sum of the holdings not flagged ignored minus
\* the core minimum, a holding outside the targets has percent 0 and a target
\* outside the holdings has value 0.  Stated for holdings whose symbols are
\* pairwise distinct, as the data model requires.
C1_ActionByDelta ==
    (Succeeded /\ UniqueSymbols(result[1].balance)) =>
        LET policy == result[1].policy
            balance == result[1].balance
            to_distribute == NonIgnoredHoldings(balance) - policy.core_position.minimum
        IN  \A s \in TargetSymbols(policy) \cup HoldingSymbols(balance) :
                (s # policy.core_position.symbol /\ ~IsIgnored(balance, s)) =>
                    ActionsOf(s) =
                        { ActionOfDelta((to_distribute * TargetPercent(policy, s)) \div 100
                                        - HoldingValue(balance, s)) }

\* C2: every symbol the holdings flag ignored is left out of the total that
\* is distributed and gets the action Ignore when adjust_allocations
\* succeeds, a symbol of the target map included.
C2_IgnoredExcluded ==
    Succeeded =>
        LET policy == result[1].policy
            balance == result[1].balance
        IN  /\ \A s \in HoldingSymbols(balance) :
                  IsIgnored(balance, s) => ActionsOf(s) = {Ignore}
            /\ UniqueSymbols(balance) =>
                  TotalVal(Adjustments(policy, balance)) = NonIgnoredHoldings(balance)

\* C3: adjust_allocations returns an error whenever the holdings flag a
\* symbol of the target map ignored.
C3_IgnoredTargetIsError ==
    Called =>
        ( (\E s \in TargetSymbols(result[1].policy) : IsIgnored(result[1].balance, s))
            => ~result[1].ok )

\* the sum of the percents of an allocation map
PercentTotal(allocations) == SeqSum(allocations, DOMAIN allocations)

\* C4: the configuration file loads if and only if the percents of every one
\* of its policies sum to exactly 100; a file that loads yields one policy per
\* builder, with the builder's fields; a file that does not yields no policy.
C4_BuildIffSumIs100 ==
    policies # <<>> =>
        /\ policies[1].ok <=> \A i \in 1..Len(config) : PercentTotal(config[i].allocations) = 100
        /\ policies[1].ok =>
              /\ Len(policies[1].val) = Len(config)
              /\ \A i \in 1..Len(config) :
                    /\ policies[1].val[i].targets = config[i].allocations
                    /\ policies[1].val[i].core_position = config[i].core_position
                    /\ policies[1].val[i].account_number = config[i].account_number
        /\ ~policies[1].ok => policies[1].val = <<>>

\* a file of two policies fails as a whole on its second policy alone
C4_Witness ==
    /\ policies # <<>>
    /\ Len(config) = 2
    /\ PercentTotal(config[1].allocations) = 100
    /\ PercentTotal(config[2].allocations) > 100
    /\ ~policies[1].ok

\* the checks that precede the working map pass: the core symbol is found,
\* its position is flagged core and it is no key of the targets
WorkingMapBuilt(policy, balance) ==
    /\ balance.account_number = policy.account_number
    /\ \E k \in 1..Len(balance.positions) :
          /\ balance.positions[k].symbol = policy.core_position.symbol
          /\ \A j \in 1..(k - 1) : balance.positions[j].symbol # policy.core_position.symbol
          /\ balance.positions[k].is_core
    /\ policy.core_position.symbol \notin DOMAIN policy.targets

\* the sum of the values of the entries of a working map that are not ignored
NonIgnoredTotal(adjustments) ==
    LET kept == { s \in DOMAIN adjustments : ~adjustments[s].ignored }
    IN  SeqSum([s \in kept |-> adjustments[s].current_value], kept)

\* C5: when the non-ignored entries of the working map sum to less than the
\* core minimum, adjust_allocations fails with the not-enough-value error and
\* returns no action; when it succeeds, to_distribute >= 0.
C5_CoreShortfallFails ==
    Called =>
        LET policy == result[1].policy
            balance == result[1].balance
            total_value == NonIgnoredTotal(Adjustments(policy, balance))
        IN  /\ (WorkingMapBuilt(policy, balance) /\ total_value - policy.core_position.minimum < 0) =>
                  /\ ~result[1].ok
                  /\ result[1].err = ErrNotEnoughValue
                  /\ result[1].actions = <<>>
            /\ result[1].ok => total_value - policy.core_position.minimum >= 0

\* the shortfall comes from an ignored holding: with it the account would
\* hold enough
C5_Witness ==
    /\ Called
    /\ result[1].err = ErrNotEnoughValue
    /\ \E s \in HoldingSymbols(result[1].balance) : IsIgnored(result[1].balance, s)
    /\ HoldingValue(result[1].balance, "CASH") + HoldingValue(result[1].balance, "VTI")
         + HoldingValue(result[1].balance, "BND") >= result[1].policy.core_position.minimum

\* C6: when no position of the holdings has the policy's core symbol,
\* adjust_allocations fails with the core-position-not-found error and
\* returns no action.
C6_MissingCoreFails ==
    Called =>
        ( (\A k \in 1..Len(result[1].balance.positions) :
              result[1].balance.positions[k].symbol # result[1].policy.core_position.symbol)
          => /\ ~result[1].ok
             /\ result[1].err = ErrCoreNotFound
             /\ result[1].actions = <<>> )

\* holdings of the policy's account with positions, none of them the core
C6_Witness ==
    /\ Called
    /\ result[1].balance.account_number = result[1].policy.account_number
    /\ Len(result[1].balance.positions) > 0
    /\ result[1].policy.core_position.symbol \notin HoldingSymbols(result[1].balance)
    /\ result[1].err = ErrCoreNotFound

\* the entry of symbol s in the working map of the call
EntryOf(s) == Adjustments(result[1].policy, result[1].balance)[s]

\* C7: when adjust_allocations succeeds and the core symbol is not ignored,
\* its action is Sell(current_value - minimum) above the minimum, Nothing at
\* the minimum and Buy(minimum - current_value) below it; and a core below the
\* minimum does not make the call fail: with the earlier checks passed, no
\* target ignored and a non-ignored total of at least the minimum, it succeeds.
C7_CoreAction ==
    Called =>
        LET policy == result[1].policy
            balance == result[1].balance
            core == policy.core_position.symbol
            minimum == policy.core_position.minimum
        IN  /\ (result[1].ok /\ ~IsIgnored(balance, core)) =>
                  LET current_value == EntryOf(core).current_value
                  IN  ActionsOf(core) =
                        { IF current_value > minimum
                          THEN [kind |-> "Sell", amount |-> current_value - minimum]
                          ELSE IF current_value = minimum
                               THEN [kind |-> "Nothing", amount |-> 0]
                               ELSE [kind |-> "Buy", amount |-> minimum - current_value] }
            /\ ( /\ WorkingMapBuilt(policy, balance)
                 /\ \A s \in TargetSymbols(policy) : ~IsIgnored(balance, s)
                 /\ NonIgnoredTotal(Adjustments(policy, balance)) >= minimum )
               => result[1].ok

\* a core below the minimum in an account that holds enough: the call
\* succeeds and the core is bought up to the minimum
C7_Witness ==
    /\ Succeeded
    /\ ~IsIgnored(result[1].balance, result[1].policy.core_position.symbol)
    /\ EntryOf(result[1].policy.core_position.symbol).current_value
         < result[1].policy.core_position.minimum
    /\ \E amount \in 1..result[1].policy.core_position.minimum :
          ActionsOf(result[1].policy.core_position.symbol) = {[kind |-> "Buy", amount |-> amount]}

\* the signed change an action stands for
SignedAmount(action) ==
    IF action.kind = "Buy" THEN action.amount
    ELSE IF action.kind = "Sell" THEN 0 - action.amount
    ELSE 0

\* the value the returned action moves entry i of the result to
DesiredValueAt(i) ==
    EntryOf(result[1].actions[i][1]).current_value + SignedAmount(result[1].actions[i][2])

\* C8: when adjust_allocations succeeds on holdings with no ignored symbol,
\* the desired values of the non-core symbols (the value of each plus what its
\* action buys, minus what it sells) and the core minimum sum to total_value.
C8_Conservation ==
    (Succeeded /\ \A s \in HoldingSymbols(result[1].balance) : ~IsIgnored(result[1].balance, s)) =>
        LET policy == result[1].policy
            adjustments == Adjustments(policy, result[1].balance)
            others == { i \in 1..Len(result[1].actions) :
                          result[1].actions[i][1] # policy.core_position.symbol }
        IN  SeqSum([i \in others |-> DesiredValueAt(i)], others) + policy.core_position.minimum
              = NonIgnoredTotal(adjustments)

\* the end-to-end scenario: CASH 1000, VTI 4000, BND 5000, minimum 500,
\* targets 60/40, nothing ignored: VTI is bought and BND is sold
C8_Witness ==
    /\ Succeeded
    /\ \A s \in HoldingSymbols(result[1].balance) : ~IsIgnored(result[1].balance, s)
    /\ ActionsOf("VTI") = {[kind |-> "Buy", amount |-> 1700]}
    /\ ActionsOf("BND") = {[kind |-> "Sell", amount |-> 1200]}
    /\ ActionsOf("CASH") = {[kind |-> "Sell", amount |-> 500]}

\* C9: after the provider file is loaded, the positions of every account
\* have pairwise distinct symbols and the value of each is the sum of the
\* account's rows of that symbol.
C9_LoaderMergesDuplicates ==
    portfolio # <<>> =>
        \A a \in DOMAIN portfolio[1] :
            /\ UniqueSymbols(portfolio[1][a])
            /\ \A k \in 1..Len(portfolio[1][a].positions) :
                  LET s == portfolio[1][a].positions[k].symbol
                      idx == { i \in 1..Len(rows) :
                                 rows[i].account_number = a /\ rows[i].symbol.stem = s }
                  IN  portfolio[1][a].positions[k].current_value
                        = SeqSum([i \in idx |-> rows[i].current_value], idx)

\* C10: a successful adjust_allocations returns exactly one entry for each
\* symbol of the targets or the holdings, and no other entry.
C10_OneEntryPerSymbol ==
    Succeeded =>
        /\ { result[1].actions[i][1] : i \in 1..Len(result[1].actions) }
             = TargetSymbols(result[1].policy) \cup HoldingSymbols(result[1].balance)
        /\ \A i, j \in 1..Len(result[1].actions) :
              result[1].actions[i][1] = result[1].actions[j][1] => i = j

\* the holdings list a symbol twice and lack a symbol of the targets
C10_Witness ==
    /\ Succeeded
    /\ ~UniqueSymbols(result[1].balance)
    /\ \E s \in TargetSymbols(result[1].policy) : s \notin HoldingSymbols(result[1].balance)
    /\ \E s \in HoldingSymbols(result[1].balance) : s \notin TargetSymbols(result[1].policy)

\* two symbols of the model that differ at most in the case of their letters
SameIgnoringCase(a, b) == a = b \/ {a, b} = {"bnd", "BND"}

\* what set_ignored(symbols) is to make of a balance: the same account and
\* positions, each flagged if it was flagged or its symbol matches an entry
SetIgnoredPost(before, after, symbols) ==
    /\ after.account_number = before.account_number
    /\ Len(after.positions) = Len(before.positions)
    /\ \A k \in 1..Len(before.positions) :
          /\ after.positions[k].symbol = before.positions[k].symbol
          /\ after.positions[k].current_value = before.positions[k].current_value
          /\ after.positions[k].is_core = before.positions[k].is_core
          /\ after.positions[k].ignored <=>
                \/ before.positions[k].ignored
                \/ \E i \in symbols : SameIgnoringCase(i, before.positions[k].symbol)

\* C11: on every loaded balance, flagged or not, and for every ignore list,
\* set_ignored flags exactly the positions whose symbol matches an entry
\* ignoring ASCII case, keeps the flags that are set, changes nothing else
\* (also when no entry matches), and a second call with the same list changes
\* nothing.
C11_SetIgnoredFrame ==
    portfolio # <<>> =>
        \A a \in DOMAIN portfolio[1], symbols \in SUBSET IgnoreUniverse :
            LET once == set_ignored(portfolio[1][a], symbols)
            IN  /\ SetIgnoredPost(portfolio[1][a], once, symbols)
                /\ set_ignored(once, symbols) = once

\* set_ignored has flagged BND, which only "bnd" of the ignore lists matches,
\* and left another position of the account alone
C11_Witness ==
    /\ portfolio # <<>>
    /\ \E a \in DOMAIN portfolio[1] :
          \E j, k \in 1..Len(portfolio[1][a].positions) :
              /\ portfolio[1][a].positions[j].symbol = "BND"
              /\ portfolio[1][a].positions[j].ignored
              /\ ~portfolio[1][a].positions[k].ignored

\* the error the five checks are to give in their order, "" when all pass:
\* core symbol absent, position not flagged core, core symbol among the
\* targets, a target flagged ignored, to_distribute < 0
FirstViolated(policy, balance) ==
    LET core == policy.core_position.symbol
        found == { k \in 1..Len(balance.positions) : balance.positions[k].symbol = core }
        first == CHOOSE k \in found : \A j \in found : k <= j
    IN  IF balance.account_number # policy.account_number \/ found = {}
        THEN ErrCoreNotFound
        ELSE IF ~balance.positions[first].is_core THEN ErrNotMarkedCore
        ELSE IF core \in TargetSymbols(policy) THEN ErrCoreInTargets
        ELSE IF \E s \in TargetSymbols(policy) : IsIgnored(balance, s) THEN ErrIgnoredTarget
        ELSE IF NonIgnoredTotal(Adjustments(policy, balance)) - policy.core_position.minimum < 0
             THEN ErrNotEnoughValue
        ELSE ""

\* C12: adjust_allocations fails exactly when one of the five checks is
\* violated, with the error of the earliest violated check and no action.
C12_ErrorOrder ==
    Called =>
        LET expected == FirstViolated(result[1].policy, result[1].balance)
        IN  /\ result[1].ok <=> expected = ""
            /\ ~result[1].ok => (result[1].err = expected /\ result[1].actions = <<>>)

\* the holdings hold no negative value
NonNegativeValues(balance) ==
    \A k \in 1..Len(balance.positions) : balance.positions[k].current_value >= 0

\* C13: when adjust_allocations succeeds for a built policy on holdings with
\* non-negative values, every Buy and Sell amount is strictly positive and a
\* Sell of a non-core symbol is of at most the symbol's current value.
C13_SellWithinHolding ==
    (Succeeded /\ NonNegativeValues(result[1].balance)) =>
        \A i \in 1..Len(result[1].actions) :
            LET s == result[1].actions[i][1]
                action == result[1].actions[i][2]
            IN  /\ action.kind \in {"Buy", "Sell"} => action.amount > 0
                /\ (action.kind = "Sell" /\ s # result[1].policy.core_position.symbol) =>
                      action.amount <= EntryOf(s).current_value

\* the sum of the amounts of the returned actions of one kind
AmountOfKind(kind) ==
    LET idx == { i \in 1..Len(result[1].actions) : result[1].actions[i][2].kind = kind }
    IN  SeqSum([i \in idx |-> result[1].actions[i][2].amount], idx)

\* C14: when adjust_allocations succeeds and the core position is not
\* ignored, the Buy amounts and the Sell amounts of the returned actions, the
\* core's included, have the same sum, whatever other holdings are ignored.
C14_SelfFinancing ==
    (Succeeded /\ ~IsIgnored(result[1].balance, result[1].policy.core_position.symbol)) =>
        AmountOfKind("Buy") = AmountOfKind("Sell")

\* trades are recommended while a holding outside the core is ignored
C14_Witness ==
    /\ Succeeded
    /\ ~IsIgnored(result[1].balance, result[1].policy.core_position.symbol)
    /\ \E i \in 1..Len(result[1].actions) : result[1].actions[i][2] = Ignore
    /\ AmountOfKind("Buy") > 0
    /\ AmountOfKind("Sell") > 0

====
